---- MODULE Spec2Model ----
(***************************************************************************)
(* Davis Vantage Pro driver (weather/stations/davis.py): the wake/command  *)
(* handshake, the LOOP poll, the DMPAFT archive download and the archive   *)
(* watermark of one VantagePro session, as a state machine whose steps are *)
(* the transport operations (every `await self.port.read/write`) of the    *)
(* coroutines.  The device is the environment: every read returns one of   *)
(* the replies the transport can deliver.                                  *)
(***************************************************************************)
EXTENDS Integers, Sequences, FiniteSets, TLC

(* ------------------------------ bounds --------------------------------- *)
\* largest page count the device announces in a download header
MaxPages == 2
\* largest start offset the device announces in a download header
MaxOffset == 5
\* most used (non-discarded) record slots the device sends in one download
MaxRecs == 2
\* most wake replies with unexpected bytes the device sends in one wake step
MaxWakeGarbage == 3
\* bytes of a drawn VProCRC argument
MaxLen == 3

(* ------------------------- program constants --------------------------- *)
\* `i < 3` of _wakeup
WakeRetries == 3
\* `range(3)` of _cmd
CmdRetries == 3
\* `range(3)` of _get_loop_fields
LoopRetries == 3
\* `range(3)` of _get_new_archive_fields
ArchRetries == 3
\* ArchiveAStruct.size: bytes of one archive record slot
ArchiveSize == 52
\* the factor 5 of `ArchiveAStruct.size * 5`: record slots walked in a page
SlotsPerPage == 5
\* 0xffff, the stamp value of an unused slot
Sentinel == 65535

\* raw (DateStamp, TimeStamp) words the device may put in a slot: used
\* slots, and slots with one or both stamps at the sentinel
StampPairs == {<<1, 2>>, <<2, 1>>, <<2, 2>>,
               <<Sentinel, Sentinel>>, <<Sentinel, 1>>, <<1, Sentinel>>}
\* raw discriminator bytes (RecType, byte 42 of the slot)
RecTypes == {0, 255}

\* Python's None for an optional record / optional list
None == [isNone |-> TRUE, list |-> <<>>]
Some(l) == [isNone |-> FALSE, list |-> l]

VARIABLES
  \* session state (self)
  archive_time,     \* self._archive_time: the watermark (DateStamp, TimeStamp)
  ARCHIVE_REV_B,    \* self._ARCHIVE_REV_B: "None", "True" or "False"
  \* control
  pc,               \* position of the running coroutine; "idle" between calls
  call,             \* the top-level call running or last run
  outcome,          \* how the last call ended: "returned" or the exception
  raiser,           \* the function that raised, "none" if no exception
  new_rec,          \* value returned by _get_new_archive_fields
  \* _wakeup
  awake, wake_i,
  lfWrites,         \* line-feed writes of this wake step
  garbage,          \* wake replies of this wake step that were other bytes
  \* _cmd
  cmd, ok, cmd_i,
  cmdWrites,        \* transmissions of the command text in this issuance
  cmd_reply,        \* the reply read to the last transmission, if read yet
  \* _get_loop_fields
  loop_i, crc_ok,
  loopCmds,         \* _loop_cmd invocations of this call
  \* _get_new_archive_fields
  arch_i, records,
  time0,            \* the watermark when the call started
  attempts,         \* _dmpaft_cmd invocations of this call
  noResults,        \* of which returned None
  \* _dmpaft_cmd
  recs,             \* the local list `records`
  dmp,              \* the unpacked header (Pages, Offset)
  page_i, offset,
  a,                \* the record unpacked last
  slot_type,        \* byte 42 (RecType under Rev.B) of the slot unpacked last
  res,              \* the value _dmpaft_cmd returns
  cause,            \* why the attempt ended: "bad_ack", "hdr_crc", "page_crc", "done"
  hdrReads, pageReads, ackWrites, escWrites,
  tbufWrites,       \* writes of the time stamp buffer in this attempt
  ackReads,         \* reads of the acknowledgement of the time stamp buffer
  flag0,            \* _ARCHIVE_REV_B when this attempt was called
  probed,           \* data['RecType'] read by the probe that set the flag
  raw_short,        \* the frame read last (raw) is shorter than its layout
  \* the device at the other end of the transport
  device,           \* what it sends: "mixed", "dense" or "short" (see below)
  \* the construction of the session
  clear,            \* the `clear` argument of __init__
  init_cmds,        \* the command texts __init__ has put on the transport
  \* two pollArchive calls running as tasks of one event loop
  tasks,            \* of each task: where it is (at), the time_fields of
                    \* its running _dmpaft_cmd, its i, and the watermark it
                    \* found (seen) when its last attempt returned a list
  \* a second datetime, to compare with `date`
  date2,            \* the datetime
  stamps2,          \* its (DateStamp, TimeStamp)
  \* the pure functions, applied to drawn inputs
  data,             \* a byte sequence given to VProCRC
  framed,           \* its CRC has been appended to it
  date,             \* a datetime given to calcDateStamp / calcTimeStamp
  stamps,           \* the (DateStamp, TimeStamp) computed from it
  decoded           \* the result of _unpack_date_time on the stamps

sessVars == <<archive_time, ARCHIVE_REV_B, probed>>
ctlVars  == <<pc, call, outcome, raiser, new_rec>>
wakeVars == <<awake, wake_i, lfWrites, garbage>>
cmdVars  == <<cmd, ok, cmd_i, cmdWrites, cmd_reply>>
loopVars == <<loop_i, crc_ok, loopCmds>>
archVars == <<arch_i, records, time0, attempts, noResults>>
dmpVars  == <<recs, dmp, page_i, offset, a, slot_type, res, cause,
              hdrReads, pageReads, ackWrites, escWrites, tbufWrites, ackReads,
              flag0>>
pureVars == <<data, framed, date, stamps, decoded>>
restVars == <<clear, init_cmds, tasks, date2, stamps2>>
driverVars == <<sessVars, ctlVars, wakeVars, cmdVars, loopVars, archVars,
                dmpVars, raw_short>>
vars == <<driverVars, device, restVars, pureVars>>

NoSlot == [DateStamp |-> 0, TimeStamp |-> 0, Rev |-> "none"]
NoHeader == [Pages |-> 0, Offset |-> 0]
NoDate == [year |-> 0, month |-> 0, day |-> 0, hour |-> 0, minute |-> 0]

(* ---------------------------- pure helpers ----------------------------- *)
\* fault variant of TupleLess: only the date stamps are compared
TupleLessDateOnly(x, y) == x[1] < y[1]

\* Python tuple comparison x < y on pairs
TupleLess(x, y) == x[1] < y[1] \/ (x[1] = y[1] /\ x[2] < y[2])

\* new_time = (r['DateStamp'], r['TimeStamp'])
new_time(r) == <<r.DateStamp, r.TimeStamp>>

\* fault variant of FindNewest: every record is compared with the watermark
\* of the start of the loop, which is only replaced after the loop
RECURSIVE FindNewestStale(_, _, _)
FindNewestStale(rs, t, rec) ==
  IF rs = <<>>
  THEN [time |-> IF rec.isNone THEN t ELSE new_time(rec.list[1]), rec |-> rec]
  ELSE IF TupleLess(t, new_time(Head(rs)))
       THEN FindNewestStale(Tail(rs), t, Some(<<Head(rs)>>))
       ELSE FindNewestStale(Tail(rs), t, rec)

\* the `for r in records` loop of _get_new_archive_fields, from watermark t
\* and new_rec rec: returns the final watermark and new_rec
RECURSIVE FindNewest(_, _, _)
FindNewest(rs, t, rec) ==
  IF rs = <<>> THEN [time |-> t, rec |-> rec]
  ELSE IF TupleLess(t, new_time(Head(rs)))
       THEN FindNewest(Tail(rs), new_time(Head(rs)), Some(<<Head(rs)>>))
       ELSE FindNewest(Tail(rs), t, rec)

\* fault variant of UseRevB: no cache, every slot is probed
UseRevBReprobe(flag, rt) == IF rt = 0 THEN "True" ELSE "False"

\* _use_rev_b_archive: the flag after the call on a slot with discriminator rt
UseRevB(flag, rt) ==
  IF flag \in {"True", "False"} THEN flag
  ELSE IF rt = 0 THEN "True" ELSE "False"

\* the record unpacked from a raw slot under the layout the flag selects
Unpack(slot, flag) ==
  [DateStamp |-> slot.DateStamp, TimeStamp |-> slot.TimeStamp,
   Rev |-> IF flag = "True" THEN "B" ELSE "A"]

\* fault variant of IsStored: `or` in place of `and`
IsStoredEither(r) == r.DateStamp # Sentinel \/ r.TimeStamp # Sentinel

\* step 7 of _dmpaft_cmd: the record is stored
IsStored(r) == r.DateStamp # Sentinel /\ r.TimeStamp # Sentinel

(* ------------------------------- Init ---------------------------------- *)
\* no pure function has been applied
PureIdle ==
  /\ data = <<>> /\ framed = FALSE
  /\ date = NoDate /\ stamps = <<0, 0>> /\ decoded = NoDate

\* __init__ with log_start_date=None; _ARCHIVE_REV_B is the class default
InitDriver ==
  /\ archive_time = <<0, 0>>
  /\ ARCHIVE_REV_B = "None"
  /\ probed = -1
  /\ pc = "idle" /\ call = "none" /\ outcome = "none" /\ raiser = "none"
  /\ new_rec = None
  /\ awake = FALSE /\ wake_i = 0 /\ lfWrites = 0 /\ garbage = 0
  /\ cmd = "none" /\ ok = FALSE /\ cmd_i = 0 /\ cmdWrites = 0
  /\ cmd_reply = "none"
  /\ loop_i = 0 /\ crc_ok = FALSE /\ loopCmds = 0
  /\ arch_i = 0 /\ records = None /\ time0 = <<0, 0>>
  /\ attempts = 0 /\ noResults = 0
  /\ recs = <<>> /\ dmp = NoHeader /\ page_i = 0 /\ offset = 0 /\ a = NoSlot
  /\ slot_type = -1
  /\ res = None /\ cause = "none"
  /\ hdrReads = 0 /\ pageReads = 0 /\ ackWrites = 0 /\ escWrites = 0
  /\ tbufWrites = 0 /\ ackReads = 0 /\ flag0 = "None"
  /\ raw_short = FALSE

\* the calls of _cmd that __init__ makes, in order:
\* `if clear: self._cmd('CLRLOG')` and `self._cmd('SETPER', log_interval, ok=True)`
InitCalls(c) == (IF c THEN <<"CLRLOG">> ELSE <<>>) \o <<"SETPER">>

\* whether __init__ awaits the coroutine a call of `async def _cmd` returns:
\* it is a plain `def` and drops the coroutine object, whose body never runs
Awaited(x) == FALSE

\* the command texts that reach the transport while __init__ runs
InitCmds(c) == SelectSeq(InitCalls(c), Awaited)

\* the tasks that may run pollArchive on one session
Tasks == {1, 2}
NoTask == [at |-> "idle", time_fields |-> <<0, 0>>, i |-> 0, seen |-> <<0, 0>>]

\* __init__ was called with clear=c; no task has been started
Constructed(c) ==
  /\ clear = c /\ init_cmds = InitCmds(c)
  /\ tasks = [t \in Tasks |-> NoTask]
  /\ date2 = NoDate /\ stamps2 = <<0, 0>>

\* a session on a device that sends full-size frames and any mix of used
\* and unused record slots
Init == InitDriver /\ device = "mixed" /\ PureIdle /\ Constructed(FALSE)

(* --------------------- entering and leaving frames --------------------- *)
WakeReset == awake' = FALSE /\ wake_i' = 0 /\ lfWrites' = 0 /\ garbage' = 0
CmdReset  == /\ cmd' = "none" /\ ok' = FALSE /\ cmd_i' = 0 /\ cmdWrites' = 0
             /\ cmd_reply' = "none"
DmpReset  == /\ recs' = <<>> /\ dmp' = NoHeader /\ page_i' = 0 /\ offset' = 0
             /\ a' = NoSlot /\ slot_type' = -1 /\ res' = None /\ cause' = "none"
             /\ hdrReads' = 0 /\ pageReads' = 0 /\ ackWrites' = 0
             /\ escWrites' = 0 /\ tbufWrites' = 0 /\ ackReads' = 0
             /\ flag0' = ARCHIVE_REV_B

\* `await self._cmd(c, ..., ok=k)`: _cmd starts with `await self._wakeup()`,
\* whose loop condition holds on entry
EnterCmd(c, k) ==
  /\ cmd' = c /\ ok' = k /\ cmd_i' = 0 /\ cmdWrites' = 0 /\ cmd_reply' = "none"
  /\ WakeReset
  /\ pc' = "wake_write"

\* an exception leaves every frame up to the caller of the poll
Raise(e, by) ==
  /\ pc' = "idle" /\ outcome' = e /\ raiser' = by
  /\ new_rec' = None
  /\ UNCHANGED call

(* ------------------------------ _wakeup -------------------------------- *)
\* the `except TimeoutError: i += 1` of _wakeup: i after one read
WakeCount(i, reply) == IF reply = "timeout" THEN i + 1 ELSE i

\* the test of `while not awake and i < 3`
WakeMore(aw, i) == ~aw /\ i < WakeRetries

\* fault variant of WakeAsserted: _wakeup returns whatever was read
WakeAssertSkipped(aw) == TRUE

\* the `assert awake` branch of the end of _wakeup: it returns only if awake
WakeAsserted(aw) == aw

\* await self.port.write("\n")
WakeWrite ==
  /\ pc = "wake_write"
  /\ lfWrites' = lfWrites + 1
  /\ pc' = "wake_read"
  /\ UNCHANGED <<awake, wake_i, garbage, call, outcome, raiser, new_rec>>
  /\ UNCHANGED <<sessVars, cmdVars, loopVars, archVars, dmpVars>>
  /\ UNCHANGED <<raw_short, device, restVars, pureVars>>

\* ack = await wait_for(self.port.read(2), 1.2), the loop test and the
\* final assert of _wakeup; on success _cmd goes on to its `for` loop
WakeRead ==
  /\ pc = "wake_read"
  /\ \E reply \in {"ack", "other", "timeout"} :
       /\ reply = "other" => garbage < MaxWakeGarbage
       /\ garbage' = IF reply = "other" THEN garbage + 1 ELSE garbage
       /\ awake' = (reply = "ack")
       /\ wake_i' = WakeCount(wake_i, reply)
       /\ IF WakeMore(awake', wake_i')
          THEN /\ pc' = "wake_write"
               /\ UNCHANGED <<call, outcome, raiser, new_rec>>
          ELSE IF WakeAsserted(awake')
          THEN /\ pc' = "cmd_write"
               /\ UNCHANGED <<call, outcome, raiser, new_rec>>
          ELSE Raise("NoDeviceException", "_wakeup")
  /\ UNCHANGED lfWrites
  /\ UNCHANGED <<sessVars, cmdVars, loopVars, archVars, dmpVars>>
  /\ UNCHANGED <<raw_short, device, restVars, pureVars>>

(* -------------------------------- _cmd --------------------------------- *)
\* fault variant of CmdVerdict: a timed-out read is retried like a mismatch
CmdVerdictRetry(reply) == IF reply = "match" THEN "return" ELSE "retry"

\* what _cmd does with the reply of one confirmation read
CmdVerdict(reply) ==
  IF reply = "timeout" THEN "raise"
  ELSE IF reply = "match" THEN "return"
  ELSE "retry"

\* fault variant of CmdMore: one pass too many
CmdMoreExtra(i) == i <= CmdRetries

\* `for i in range(3)` of _cmd: another pass after i passes
CmdMore(i) == i < CmdRetries

\* await self.port.write(f"{cmd} \n")
CmdWrite ==
  /\ pc = "cmd_write"
  /\ cmdWrites' = cmdWrites + 1
  /\ cmd_reply' = "none"
  /\ pc' = "cmd_read"
  /\ UNCHANGED <<cmd, ok, cmd_i, call, outcome, raiser, new_rec>>
  /\ UNCHANGED <<sessVars, wakeVars, loopVars, archVars, dmpVars>>
  /\ UNCHANGED <<raw_short, device, restVars, pureVars>>

\* _cmd returns None to its caller: _loop_cmd reads the LOOP frame next,
\* _dmpaft_cmd writes the time stamp next, a direct caller gets control back
CmdReturn ==
  /\ IF call = "realtime" THEN pc' = "loop_read" /\ UNCHANGED outcome
     ELSE IF call = "archive" THEN pc' = "dmp_tbuf_write" /\ UNCHANGED outcome
     ELSE pc' = "idle" /\ outcome' = "returned"
  /\ UNCHANGED <<call, raiser, new_rec>>

\* ack = await wait_for(self.port.read(len(OK or ACK)), 5 or 1.2) and the
\* rest of the loop body of _cmd
CmdRead ==
  /\ pc = "cmd_read"
  /\ \E reply \in {"match", "other", "timeout"} :
       /\ cmd_reply' = reply
       /\ CASE CmdVerdict(reply) = "raise" ->
                 /\ Raise("NoDeviceException", "_cmd")
                 /\ UNCHANGED cmd_i
            [] CmdVerdict(reply) = "return" ->
                 /\ CmdReturn
                 /\ UNCHANGED cmd_i
            [] OTHER ->
                 /\ cmd_i' = cmd_i + 1
                 /\ IF CmdMore(cmd_i')
                    THEN pc' = "cmd_write"
                         /\ UNCHANGED <<call, outcome, raiser, new_rec>>
                    ELSE CmdReturn
  /\ UNCHANGED <<cmd, ok, cmdWrites>>
  /\ UNCHANGED <<sessVars, wakeVars, loopVars, archVars, dmpVars>>
  /\ UNCHANGED <<raw_short, device, restVars, pureVars>>

\* `await station._cmd('CLRLOG')` / `await station._cmd('SETPER', n, ok=True)`
\* awaited directly on the session
IssueCmd ==
  /\ pc = "idle"
  /\ \E c \in {"CLRLOG", "SETPER"} : EnterCmd(c, c = "SETPER")
  /\ call' = "cmd" /\ outcome' = "none" /\ raiser' = "none" /\ new_rec' = None
  /\ loop_i' = 0 /\ crc_ok' = FALSE /\ loopCmds' = 0 /\ raw_short' = FALSE
  /\ arch_i' = 0 /\ records' = None /\ time0' = archive_time
  /\ attempts' = 0 /\ noResults' = 0
  /\ DmpReset
  /\ UNCHANGED sessVars
  /\ UNCHANGED <<device, restVars, pureVars>>

(* -------------------- _get_loop_fields / _loop_cmd --------------------- *)
\* _get_loop_fields() is called: first _loop_cmd, first _cmd('LOOP', 1)
StartRealtime ==
  /\ pc = "idle"
  /\ EnterCmd("LOOP 1", FALSE)
  /\ call' = "realtime" /\ outcome' = "none" /\ raiser' = "none"
  /\ new_rec' = None
  /\ loop_i' = 0 /\ crc_ok' = FALSE /\ loopCmds' = 1 /\ raw_short' = FALSE
  /\ arch_i' = 0 /\ records' = None /\ time0' = archive_time
  /\ attempts' = 0 /\ noResults' = 0
  /\ DmpReset
  /\ UNCHANGED sessVars
  /\ UNCHANGED <<device, restVars, pureVars>>

\* `for i in range(3)` of _get_loop_fields: another pass after i passes
LoopMore(i) == i < LoopRetries

\* whether a frame the device sends may be shorter than the layout read
ShortChoices == IF device = "short" THEN BOOLEAN ELSE {FALSE}

\* Struct.unpack of a frame: it reports a decode error on a frame shorter
\* than the layout's size
UnpackFails(short) == short

\* raw = await self.port.read(LoopStruct.size); crc_ok = VProCRC.verify(raw)
\* and the rest of the loop body of _get_loop_fields
LoopRead ==
  /\ pc = "loop_read"
  /\ \E v \in BOOLEAN, sh \in ShortChoices :
       /\ crc_ok' = v /\ raw_short' = sh
       /\ IF v
          THEN /\ IF UnpackFails(sh)
                  THEN Raise("DecodeError", "LoopStruct.unpack")
                  ELSE /\ pc' = "idle" /\ outcome' = "returned"
                       /\ UNCHANGED <<call, raiser, new_rec>>
               /\ UNCHANGED <<loop_i, loopCmds>>
               /\ WakeReset /\ CmdReset
          ELSE /\ loop_i' = loop_i + 1
               /\ IF LoopMore(loop_i')
                  THEN /\ EnterCmd("LOOP 1", FALSE)
                       /\ loopCmds' = loopCmds + 1
                       /\ UNCHANGED <<call, outcome, raiser, new_rec>>
                  ELSE /\ Raise("NoDeviceException", "_get_loop_fields")
                       /\ UNCHANGED loopCmds
                       /\ WakeReset /\ CmdReset
  /\ UNCHANGED <<sessVars, archVars, dmpVars>>
  /\ UNCHANGED <<device, restVars, pureVars>>

(* ------------------- _dmpaft_cmd: one download attempt ----------------- *)
\* raw slots the device may send
Slots == {[DateStamp |-> p[1], TimeStamp |-> p[2], RecType |-> t] :
             p \in StampPairs, t \in RecTypes}

\* `records = []` and `await self._cmd('DMPAFT')` of a fresh _dmpaft_cmd
EnterDmpaft ==
  /\ DmpReset
  /\ EnterCmd("DMPAFT", FALSE)

\* `return None` / `return` / `return records` of _dmpaft_cmd
DmpaftReturn(value, why) ==
  /\ res' = value /\ cause' = why /\ pc' = "dmp_return"

\* _get_new_archive_fields() is called: first pass of `for i in range(3)`
StartArchive ==
  /\ pc = "idle"
  /\ EnterDmpaft
  /\ call' = "archive" /\ outcome' = "none" /\ raiser' = "none"
  /\ new_rec' = None
  /\ loop_i' = 0 /\ crc_ok' = FALSE /\ loopCmds' = 0 /\ raw_short' = FALSE
  /\ arch_i' = 0 /\ records' = Some(<<>>) /\ time0' = archive_time
  /\ attempts' = 1 /\ noResults' = 0
  /\ UNCHANGED sessVars
  /\ UNCHANGED <<device, restVars, pureVars>>

\* 2. await self.port.write(tbuf + crc)
DmpWriteTime ==
  /\ pc = "dmp_tbuf_write"
  /\ pc' = "dmp_ack_read"
  /\ tbufWrites' = tbufWrites + 1
  /\ WakeReset /\ CmdReset
  /\ UNCHANGED <<call, outcome, raiser, new_rec>>
  /\ UNCHANGED <<recs, dmp, page_i, offset, a, slot_type, res, cause,
                 hdrReads, pageReads, ackWrites, escWrites, ackReads, flag0>>
  /\ UNCHANGED <<sessVars, loopVars, archVars>>
  /\ UNCHANGED <<raw_short, device, restVars, pureVars>>

\* fault variant of BadAckValue: the (empty) record list is returned
BadAckValueEmpty == Some(<<>>)

\* the value of `return None  # if bad ack, return None`
BadAckValue == None

\* ack = await self.port.read(1); if ack != self.ACK: return None
DmpReadAck ==
  /\ pc = "dmp_ack_read"
  /\ \E ack \in {"ack", "other"} :
       IF ack # "ack"
       THEN DmpaftReturn(BadAckValue, "bad_ack")
       ELSE pc' = "dmp_hdr_read" /\ UNCHANGED <<res, cause>>
  /\ ackReads' = ackReads + 1
  /\ UNCHANGED <<call, outcome, raiser, new_rec>>
  /\ UNCHANGED <<recs, dmp, page_i, offset, a, slot_type,
                 hdrReads, pageReads, ackWrites, escWrites, tbufWrites, flag0>>
  /\ UNCHANGED <<sessVars, wakeVars, cmdVars, loopVars, archVars>>
  /\ UNCHANGED <<raw_short, device, restVars, pureVars>>

\* 3. raw = await self.port.read(DmpStruct.size); VProCRC.verify(raw).
\* dmp holds the Pages and Offset words of raw (unpacked in step 4)
DmpReadHeader ==
  /\ pc = "dmp_hdr_read"
  /\ \E v \in BOOLEAN, sh \in ShortChoices,
        p \in 0..MaxPages, o \in 0..MaxOffset :
       /\ (~v \/ sh) => p = 0 /\ o = 0
       /\ dmp' = [Pages |-> p, Offset |-> o]
       /\ raw_short' = sh
       /\ pc' = IF v THEN "dmp_hdr_ack" ELSE "dmp_hdr_esc"
  /\ hdrReads' = hdrReads + 1
  /\ UNCHANGED <<call, outcome, raiser, new_rec>>
  /\ UNCHANGED <<recs, page_i, offset, a, slot_type, res, cause,
                 pageReads, ackWrites, escWrites, tbufWrites, ackReads, flag0>>
  /\ UNCHANGED <<sessVars, wakeVars, cmdVars, loopVars, archVars>>
  /\ UNCHANGED <<device, restVars, pureVars>>

\* await self.port.write(self.ESC); return       (header CRC bad)
DmpHdrEsc ==
  /\ pc = "dmp_hdr_esc"
  /\ escWrites' = escWrites + 1
  /\ DmpaftReturn(None, "hdr_crc")
  /\ UNCHANGED <<call, outcome, raiser, new_rec>>
  /\ UNCHANGED <<recs, dmp, page_i, offset, a, slot_type,
                 hdrReads, pageReads, ackWrites, tbufWrites, ackReads, flag0>>
  /\ UNCHANGED <<sessVars, wakeVars, cmdVars, loopVars, archVars>>
  /\ UNCHANGED <<raw_short, device, restVars, pureVars>>

\* the test of `for i in range(dmp['Pages'])` with i = n, and the
\* `return records` after the loop
PageLoop(n) ==
  IF n < dmp'.Pages
  THEN pc' = "dmp_page_read" /\ UNCHANGED <<res, cause>>
  ELSE DmpaftReturn(Some(recs'), "done")

\* await self.port.write(self.ACK); dmp = DmpStruct.unpack(raw); loop entry
DmpHdrAck ==
  /\ pc = "dmp_hdr_ack"
  /\ ackWrites' = ackWrites + 1
  /\ UNCHANGED <<recs, dmp>>
  /\ IF UnpackFails(raw_short)
     THEN /\ Raise("DecodeError", "DmpStruct.unpack")
          /\ UNCHANGED <<page_i, res, cause>>
     ELSE /\ page_i' = 0
          /\ PageLoop(0)
          /\ UNCHANGED <<call, outcome, raiser, new_rec>>
  /\ UNCHANGED <<offset, a, slot_type, hdrReads, pageReads, escWrites,
                 tbufWrites, ackReads, flag0>>
  /\ UNCHANGED <<sessVars, wakeVars, cmdVars, loopVars, archVars>>
  /\ UNCHANGED <<raw_short, device, restVars, pureVars>>

\* 5. raw = await self.port.read(DmpPageStruct.size); VProCRC.verify(raw)
DmpReadPage ==
  /\ pc = "dmp_page_read"
  /\ \E v \in BOOLEAN, sh \in ShortChoices :
       /\ raw_short' = sh
       /\ pc' = IF v THEN "dmp_page_ack" ELSE "dmp_page_esc"
  /\ pageReads' = pageReads + 1
  /\ UNCHANGED <<call, outcome, raiser, new_rec>>
  /\ UNCHANGED <<recs, dmp, page_i, offset, a, slot_type, res, cause,
                 hdrReads, ackWrites, escWrites, tbufWrites, ackReads, flag0>>
  /\ UNCHANGED <<sessVars, wakeVars, cmdVars, loopVars, archVars>>
  /\ UNCHANGED <<device, restVars, pureVars>>

\* fault variant of DmpPageEsc: the records of the pages read so far are
\* returned
DmpPageEscSalvage ==
  /\ pc = "dmp_page_esc"
  /\ escWrites' = escWrites + 1
  /\ DmpaftReturn(Some(recs), "page_crc")
  /\ UNCHANGED <<call, outcome, raiser, new_rec>>
  /\ UNCHANGED <<recs, dmp, page_i, offset, a, slot_type,
                 hdrReads, pageReads, ackWrites, tbufWrites, ackReads, flag0>>
  /\ UNCHANGED <<sessVars, wakeVars, cmdVars, loopVars, archVars>>
  /\ UNCHANGED <<raw_short, device, restVars, pureVars>>

\* fault variant of DmpPageEsc: the bad page is acknowledged
DmpPageEscAcks ==
  /\ pc = "dmp_page_esc"
  /\ ackWrites' = ackWrites + 1
  /\ DmpaftReturn(None, "page_crc")
  /\ UNCHANGED <<call, outcome, raiser, new_rec>>
  /\ UNCHANGED <<recs, dmp, page_i, offset, a, slot_type,
                 hdrReads, pageReads, escWrites, tbufWrites, ackReads, flag0>>
  /\ UNCHANGED <<sessVars, wakeVars, cmdVars, loopVars, archVars>>
  /\ UNCHANGED <<raw_short, device, restVars, pureVars>>

\* await self.port.write(self.ESC); return       (page CRC bad)
DmpPageEsc ==
  /\ pc = "dmp_page_esc"
  /\ escWrites' = escWrites + 1
  /\ DmpaftReturn(None, "page_crc")
  /\ UNCHANGED <<call, outcome, raiser, new_rec>>
  /\ UNCHANGED <<recs, dmp, page_i, offset, a, slot_type,
                 hdrReads, pageReads, ackWrites, tbufWrites, ackReads, flag0>>
  /\ UNCHANGED <<sessVars, wakeVars, cmdVars, loopVars, archVars>>
  /\ UNCHANGED <<raw_short, device, restVars, pureVars>>

\* fault variant of StartOffset: the header's offset applied to every page
StartOffsetEveryPage(i, hdr) == hdr.Offset * ArchiveSize

\* offset = 0; if i == 0: offset = dmp['Offset'] * ArchiveAStruct.size
StartOffset(i, hdr) == IF i = 0 THEN hdr.Offset * ArchiveSize ELSE 0

\* the test of `while offset < ArchiveAStruct.size * 5`
InPage(off) == off < ArchiveSize * SlotsPerPage

\* the test of the while loop; when it fails, the next pass of the page loop
SlotLoop ==
  IF InPage(offset')
  THEN pc' = "dmp_walk" /\ page_i' = page_i /\ UNCHANGED <<res, cause>>
  ELSE page_i' = page_i + 1 /\ PageLoop(page_i + 1)

\* await self.port.write(self.ACK); page = DmpPageStruct.unpack(raw);
\* the start offset of the page
DmpPageAck ==
  /\ pc = "dmp_page_ack"
  /\ ackWrites' = ackWrites + 1
  /\ UNCHANGED <<recs, dmp>>
  /\ IF UnpackFails(raw_short)
     THEN /\ Raise("DecodeError", "DmpPageStruct.unpack")
          /\ UNCHANGED <<offset, page_i, res, cause>>
     ELSE /\ offset' = StartOffset(page_i, dmp)
          /\ SlotLoop
          /\ UNCHANGED <<call, outcome, raiser, new_rec>>
  /\ UNCHANGED <<a, slot_type, hdrReads, pageReads, escWrites,
                 tbufWrites, ackReads, flag0>>
  /\ UNCHANGED <<sessVars, wakeVars, cmdVars, loopVars, archVars>>
  /\ UNCHANGED <<raw_short, device, restVars, pureVars>>

\* the slot a dense device holds at byte `off` of page p: a used record
\* stamped with its page and position, revision byte 0
DenseSlot(p, off) ==
  [DateStamp |-> p + 1, TimeStamp |-> (off \div ArchiveSize) + 1, RecType |-> 0]

\* the slots the device may hold at `offset` of the page being walked: a
\* mixed device holds any slot (no more than MaxRecs used ones in one
\* download), the others hold DenseSlot
SlotChoices ==
  IF device = "mixed"
  THEN {s \in Slots : IsStored(s) => Len(recs) < MaxRecs}
  ELSE {DenseSlot(page_i, offset)}

\* 6./7. one pass of the while loop on the slot at `offset` of the page
\* blob: revision probe, unpack, sentinel test, append, offset += size.
\* The slot's bytes are the device's; they are drawn when the slot is read
DmpWalk ==
  /\ pc = "dmp_walk"
  /\ \E slot \in SlotChoices :
       /\ ARCHIVE_REV_B' = UseRevB(ARCHIVE_REV_B, slot.RecType)
       /\ probed' = IF ARCHIVE_REV_B = "None" THEN slot.RecType ELSE probed
       /\ a' = Unpack(slot, ARCHIVE_REV_B')
       /\ slot_type' = slot.RecType
       /\ recs' = IF IsStored(a') THEN Append(recs, a') ELSE recs
  /\ offset' = offset + ArchiveSize
  /\ UNCHANGED dmp
  /\ SlotLoop
  /\ UNCHANGED archive_time
  /\ UNCHANGED <<call, outcome, raiser, new_rec>>
  /\ UNCHANGED <<hdrReads, pageReads, ackWrites, escWrites,
                 tbufWrites, ackReads, flag0>>
  /\ UNCHANGED <<wakeVars, cmdVars, loopVars, archVars>>
  /\ UNCHANGED <<raw_short, device, restVars, pureVars>>

(* ----------------------- _get_new_archive_fields ----------------------- *)
\* fault variant of ArchMore: one pass too few
ArchMoreTwo(i) == i < ArchRetries - 1

\* `for i in range(3)` of _get_new_archive_fields: another pass after i passes
ArchMore(i) == i < ArchRetries

\* fault variant of IsResult: an empty list is no result
IsResultTruthy(r) == ~r.isNone /\ r.list # <<>>

\* the test of `if records is not None: break`
IsResult(r) == ~r.isNone

\* records = (result of _dmpaft_cmd) and the rest of the body of
\* `for i in range(3)`; after the loop the raise, or the search for the
\* newest record and the return
DmpReturn ==
  /\ pc = "dmp_return"
  /\ records' = res
  /\ IF ~IsResult(res) /\ ArchMore(arch_i + 1)
     THEN /\ noResults' = noResults + 1
          /\ arch_i' = arch_i + 1
          /\ attempts' = attempts + 1
          /\ EnterDmpaft
          /\ UNCHANGED archive_time
          /\ UNCHANGED <<call, outcome, raiser, new_rec>>
     ELSE /\ noResults' = IF IsResult(res) THEN noResults ELSE noResults + 1
          /\ arch_i' = IF IsResult(res) THEN arch_i ELSE arch_i + 1
          /\ IF res.isNone
             THEN /\ Raise("NoNewRecordsException", "_get_new_archive_fields")
                  /\ UNCHANGED archive_time
             ELSE /\ archive_time' = FindNewest(res.list, archive_time, None).time
                  /\ new_rec' = FindNewest(res.list, archive_time, None).rec
                  /\ pc' = "idle" /\ outcome' = "returned"
                  /\ UNCHANGED <<call, raiser>>
          /\ DmpReset
          /\ UNCHANGED <<attempts, wakeVars, cmdVars>>
  /\ UNCHANGED <<ARCHIVE_REV_B, probed, time0, loopVars>>
  /\ UNCHANGED <<raw_short, device, restVars, pureVars>>

(* ------------------------------ the system ----------------------------- *)
Next ==
  \/ StartRealtime
  \/ StartArchive
  \/ IssueCmd
  \/ WakeWrite
  \/ WakeRead
  \/ CmdWrite
  \/ CmdRead
  \/ LoopRead
  \/ DmpWriteTime
  \/ DmpReadAck
  \/ DmpReadHeader
  \/ DmpHdrEsc
  \/ DmpHdrAck
  \/ DmpReadPage
  \/ DmpPageEsc
  \/ DmpPageAck
  \/ DmpWalk
  \/ DmpReturn

Spec == Init /\ [][Next]_vars

\* a session on a device whose archive holds a used record in every slot
InitDense == InitDriver /\ device = "dense" /\ PureIdle /\ Constructed(FALSE)

SpecDense == InitDense /\ [][Next]_vars

\* a session on such a device when its frames may also arrive short of the
\* size asked for
InitShort == InitDriver /\ device = "short" /\ PureIdle /\ Constructed(FALSE)

SpecShort == InitShort /\ [][Next]_vars

\* a session constructed with either value of `clear`
InitCreate ==
  /\ InitDriver /\ device = "dense" /\ PureIdle
  /\ \E c \in BOOLEAN : Constructed(c)

SpecCreate == InitCreate /\ [][Next]_vars

(* ------------- two _get_new_archive_fields on one session -------------- *)
\* Two tasks of one event loop call _get_new_archive_fields on the same
\* session.  A task gives up control only at an await: all of them are
\* inside _dmpaft_cmd (every port.read and port.write); time.sleep blocks,
\* and from the return of _dmpaft_cmd to the return of
\* _get_new_archive_fields nothing is awaited.  The replies the two tasks
\* read are the device's: an attempt ends with None or with any list.
UsedPairs == {p \in StampPairs : p[1] # Sentinel /\ p[2] # Sentinel}

\* the lists of records an attempt may return
TaskLists ==
  UNION {{[k \in 1..n |-> [DateStamp |-> f[k][1], TimeStamp |-> f[k][2],
                            Rev |-> "B"]] : f \in [1..n -> UsedPairs]}
            : n \in 0..MaxRecs}

\* fault variant of ScanWatermark: the scan compares with the time stamp
\* the download was called with
ScanWatermarkStale(now, called) == called

\* the watermark the scan loop starts from: self._archive_time as it is
\* when the loop runs (now), not as it was when _dmpaft_cmd was called
ScanWatermark(now, called) == now

\* the other session and pure-function state, which the tasks leave alone
taskFrame ==
  <<ARCHIVE_REV_B, probed, ctlVars, wakeVars, cmdVars, loopVars, archVars,
    dmpVars, raw_short, device, clear, init_cmds, date2, stamps2, pureVars>>

\* a task calls _get_new_archive_fields: `records = []`, first pass of the
\* loop, `self._dmpaft_cmd(self._archive_time)` runs up to its first await
TaskCall(t) ==
  /\ tasks[t].at # "dmpaft"
  /\ tasks' = [tasks EXCEPT ![t] = [at |-> "dmpaft",
                                    time_fields |-> archive_time,
                                    i |-> 0, seen |-> <<0, 0>>]]
  /\ UNCHANGED <<archive_time, taskFrame>>

\* the task is resumed for the last time in its _dmpaft_cmd, which returns
\* None: next pass of `for i in range(3)` with a new _dmpaft_cmd, or the
\* raise after the loop
TaskNone(t) ==
  /\ tasks[t].at = "dmpaft"
  /\ tasks' = [tasks EXCEPT ![t] =
        IF ArchMore(tasks[t].i + 1)
        THEN [at |-> "dmpaft", time_fields |-> archive_time,
              i |-> tasks[t].i + 1, seen |-> <<0, 0>>]
        ELSE [at |-> "raised", time_fields |-> tasks[t].time_fields,
              i |-> tasks[t].i + 1, seen |-> <<0, 0>>]]
  /\ UNCHANGED <<archive_time, taskFrame>>

\* the task is resumed for the last time in its _dmpaft_cmd, which returns
\* a list: break, the scan for the newest record, return new_rec
TaskList(t) ==
  /\ tasks[t].at = "dmpaft"
  /\ \E rs \in TaskLists :
       archive_time' =
         FindNewest(rs, ScanWatermark(archive_time, tasks[t].time_fields),
                    None).time
  /\ tasks' = [tasks EXCEPT ![t] = [at |-> "returned",
                                    time_fields |-> tasks[t].time_fields,
                                    i |-> tasks[t].i, seen |-> archive_time]]
  /\ UNCHANGED taskFrame

NextTasks == \E t \in Tasks : TaskCall(t) \/ TaskNone(t) \/ TaskList(t)

SpecTasks == Init /\ [][NextTasks]_vars

(* ------------------------------- VProCRC ------------------------------- *)
\* VProCRC.CRC_TABLE, entry k of the tuple at position k + 1
CRC_TABLE == <<
  0, 4129, 8258, 12387, 16516, 20645, 24774, 28903,
  33032, 37161, 41290, 45419, 49548, 53677, 57806, 61935,
  4657, 528, 12915, 8786, 21173, 17044, 29431, 25302,
  37689, 33560, 45947, 41818, 54205, 50076, 62463, 58334,
  9314, 13379, 1056, 5121, 25830, 29895, 17572, 21637,
  42346, 46411, 34088, 38153, 58862, 62927, 50604, 54669,
  13907, 9842, 5649, 1584, 30423, 26358, 22165, 18100,
  46939, 42874, 38681, 34616, 63455, 59390, 55197, 51132,
  18628, 22757, 26758, 30887, 2112, 6241, 10242, 14371,
  51660, 55789, 59790, 63919, 35144, 39273, 43274, 47403,
  23285, 19156, 31415, 27286, 6769, 2640, 14899, 10770,
  56317, 52188, 64447, 60318, 39801, 35672, 47931, 43802,
  27814, 31879, 19684, 23749, 11298, 15363, 3168, 7233,
  60846, 64911, 52716, 56781, 44330, 48395, 36200, 40265,
  32407, 28342, 24277, 20212, 15891, 11826, 7761, 3696,
  65439, 61374, 57309, 53244, 48923, 44858, 40793, 36728,
  37256, 33193, 45514, 41451, 53516, 49453, 61774, 57711,
  4224, 161, 12482, 8419, 20484, 16421, 28742, 24679,
  33721, 37784, 41979, 46042, 49981, 54044, 58239, 62302,
  689, 4752, 8947, 13010, 16949, 21012, 25207, 29270,
  46570, 42443, 38312, 34185, 62830, 58703, 54572, 50445,
  13538, 9411, 5280, 1153, 29798, 25671, 21540, 17413,
  42971, 47098, 34713, 38840, 59231, 63358, 50973, 55100,
  9939, 14066, 1681, 5808, 26199, 30326, 17941, 22068,
  55628, 51565, 63758, 59695, 39368, 35305, 47498, 43435,
  22596, 18533, 30726, 26663, 6336, 2273, 14466, 10403,
  52093, 56156, 60223, 64286, 35833, 39896, 43963, 48026,
  19061, 23124, 27191, 31254, 2801, 6864, 10931, 14994,
  64814, 60687, 56684, 52557, 48554, 44427, 40424, 36297,
  31782, 27655, 23652, 19525, 15522, 11395, 7392, 3265,
  61215, 65342, 53085, 57212, 44955, 49082, 36825, 40952,
  28183, 32310, 20053, 24180, 11923, 16050, 3793, 7920
  >>

\* a ^ b on the n low bits of two naturals
RECURSIVE BitXor(_, _, _)
BitXor(x, y, n) ==
  IF n = 0 THEN 0
  ELSE (((x % 2) + (y % 2)) % 2) + 2 * BitXor(x \div 2, y \div 2, n - 1)

\* one pass of the loop of VProCRC.get:
\* crc = CRC_TABLE[(crc >> 8) ^ byte] ^ ((crc & 0xFF) << 8)
CrcStep(crc, byte) ==
  BitXor(CRC_TABLE[BitXor(crc \div 256, byte, 8) + 1], (crc % 256) * 256, 16)

\* VProCRC.get(data): the loop over the first n bytes of data, from crc = 0
RECURSIVE CrcOver(_, _)
CrcOver(bytes, n) ==
  IF n = 0 THEN 0 ELSE CrcStep(CrcOver(bytes, n - 1), bytes[n])

get(bytes) == CrcOver(bytes, Len(bytes))

\* VProCRC.verify(data)
verify(bytes) == IF Len(bytes) = 0 THEN FALSE ELSE ~(get(bytes) # 0)

\* fault variant of PackCrc: the CRC in little-endian format
PackCrcLittle(crc) == <<crc % 256, crc \div 256>>

\* struct.pack('>H', crc)
PackCrc(crc) == <<crc \div 256, crc % 256>>

\* struct.pack('2H', *time_fields), the low byte of each word first
PackTime(t) == <<t[1] % 256, t[1] \div 256, t[2] % 256, t[2] \div 256>>

\* the byte values frames are built from
Bytes == {0, 1, 6, 27, 128, 255}

\* the time stamps whose buffer is framed
TimeFields == {<<0, 0>>, <<1, 2>>, <<11983, 1430>>, <<Sentinel, Sentinel>>}

\* one more byte of data arrives
CrcExtend ==
  /\ ~framed /\ Len(data) < MaxLen
  /\ \E b \in Bytes : data' = Append(data, b)
  /\ UNCHANGED <<framed, date, stamps, decoded, driverVars, device, restVars>>

\* tbuf = struct.pack('2H', *time_fields) of _dmpaft_cmd
CrcTimeFields ==
  /\ ~framed /\ data = <<>>
  /\ \E t \in TimeFields : data' = PackTime(t)
  /\ UNCHANGED <<framed, date, stamps, decoded, driverVars, device, restVars>>

\* crc = VProCRC.get(tbuf); crc = struct.pack('>H', crc); tbuf + crc
CrcFrame ==
  /\ ~framed /\ data # <<>>
  /\ data' = data \o PackCrc(get(data))
  /\ framed' = TRUE
  /\ UNCHANGED <<date, stamps, decoded, driverVars, device, restVars>>

NextCRC == CrcExtend \/ CrcTimeFields \/ CrcFrame

SpecCRC == Init /\ [][NextCRC]_vars

(* --------------------- date stamps and time stamps --------------------- *)
\* fault variant of calcDateStamp: the month in a 4-bit field at bit 4
calcDateStampNarrow(d) == d.day + d.month * 16 + (d.year - 2000) * 512

\* VantagePro.calcDateStamp(date)
calcDateStamp(d) == d.day + d.month * 32 + (d.year - 2000) * 512

\* fault variant of calcTimeStamp: hour and minute exchanged
calcTimeStampSwapped(d) == 100 * d.minute + d.hour

\* VantagePro.calcTimeStamp(date)
calcTimeStamp(d) == 100 * d.hour + d.minute

\* _ArchiveStruct._unpack_date_time(date, time_): & 0x1f, >> 5 & 0x0f,
\* >> 9 & 0x7f, divmod(time_, 100)
unpack_date_time(date_, time_) ==
  [year   |-> ((date_ \div 512) % 128) + 2000,
   month  |-> (date_ \div 32) % 16,
   day    |-> date_ % 32,
   hour   |-> time_ \div 100,
   minute |-> time_ % 100]

\* the datetimes that are stamped
Dates ==
  [year : 2000..2127, month : 1..12, day : {1, 15, 16, 31},
   hour : {0, 14, 23}, minute : {0, 30, 59}]

\* a datetime is given
DateGiven ==
  /\ date = NoDate
  /\ date' \in Dates
  /\ UNCHANGED <<stamps, decoded, data, framed, driverVars, device, restVars>>

\* (calcDateStamp(date), calcTimeStamp(date))
DateStamped ==
  /\ date # NoDate /\ stamps = <<0, 0>>
  /\ stamps' = <<calcDateStamp(date), calcTimeStamp(date)>>
  /\ UNCHANGED <<date, decoded, data, framed, driverVars, device, restVars>>

\* _unpack_date_time(DateStamp, TimeStamp)
DateUnpacked ==
  /\ stamps # <<0, 0>> /\ decoded = NoDate
  /\ decoded' = unpack_date_time(stamps[1], stamps[2])
  /\ UNCHANGED <<date, stamps, data, framed, driverVars, device, restVars>>

NextDate == DateGiven \/ DateStamped \/ DateUnpacked

SpecDate == Init /\ [][NextDate]_vars

(* ----------------------- the order of the stamps ----------------------- *)
\* the datetimes that are compared: the ends of every field's range and
\* their neighbours
OrderDates ==
  [year : {2000, 2001, 2127}, month : {1, 2, 12}, day : {1, 2, 31},
   hour : {0, 1, 23}, minute : {0, 1, 59}]

\* the session state no step on datetimes changes
orderFrame ==
  <<decoded, data, framed, driverVars, device, clear, init_cmds, tasks>>

\* two datetimes are given
OrderGiven ==
  /\ date = NoDate /\ date2 = NoDate
  /\ date' \in OrderDates /\ date2' \in OrderDates
  /\ UNCHANGED <<stamps, stamps2, orderFrame>>

\* (calcDateStamp(d), calcTimeStamp(d)) of both, as __init__ computes the
\* watermark of log_start_date
OrderStamped ==
  /\ date # NoDate /\ stamps = <<0, 0>>
  /\ stamps' = <<calcDateStamp(date), calcTimeStamp(date)>>
  /\ stamps2' = <<calcDateStamp(date2), calcTimeStamp(date2)>>
  /\ UNCHANGED <<date, date2, orderFrame>>

NextOrder == OrderGiven \/ OrderStamped

SpecOrder == Init /\ [][NextOrder]_vars

(* ========================= properties checked ========================== *)
\* the lexicographic order on (date-stamp, time-stamp) pairs
LexLess(x, y) == x[1] < y[1] \/ (x[1] = y[1] /\ x[2] < y[2])
LexMax(S) == CHOOSE x \in S : \A y \in S : x = y \/ LexLess(y, x)
PairsOf(rs) == {<<rs[k].DateStamp, rs[k].TimeStamp>> : k \in 1..Len(rs)}
\* _get_new_archive_fields has returned (pollArchive returned)
ArchiveReturned == pc = "idle" /\ call = "archive" /\ outcome = "returned"
\* the pairs of the downloaded list that strictly exceed the old watermark
Newer == {p \in PairsOf(records.list) : LexLess(time0, p)}

\* C1: the watermark never decreases in the lexicographic order, in any
\* step of any poll, and when pollArchive returns it is the maximum of the
\* watermark before the call and the pairs of the downloaded list
C1_WatermarkMonotone ==
  /\ [][~LexLess(archive_time', archive_time)]_vars
  /\ [](ArchiveReturned =>
          archive_time = LexMax({time0} \cup PairsOf(records.list)))

\* a later poll advanced the watermark over a list that is not ascending
C1_Witness ==
  /\ ArchiveReturned
  /\ time0 # <<0, 0>>
  /\ Len(records.list) = 2
  /\ LexLess(time0, archive_time)
  /\ LexLess(<<records.list[2].DateStamp, records.list[2].TimeStamp>>,
             <<records.list[1].DateStamp, records.list[1].TimeStamp>>)

\* C2: when the download returned a list, pollArchive returns a record of
\* the list whose pair is the maximum of the pairs strictly above the old
\* watermark and moves the watermark to that pair; with no such pair it
\* returns None and the watermark stays
C2_NewestSelected ==
  ArchiveReturned =>
    IF Newer = {}
    THEN new_rec = None /\ archive_time = time0
    ELSE /\ ~new_rec.isNone
         /\ \E k \in 1..Len(records.list) : new_rec.list[1] = records.list[k]
         /\ <<new_rec.list[1].DateStamp, new_rec.list[1].TimeStamp>>
              = LexMax(Newer)
         /\ archive_time = LexMax(Newer)

\* the newest record is the first of two, the second is newer than the old
\* watermark too
C2_Witness ==
  /\ ArchiveReturned
  /\ Len(records.list) = 2
  /\ Cardinality(Newer) = 2
  /\ new_rec = Some(<<records.list[1]>>)
  /\ time0 # <<0, 0>>

\* C3 (as claimed): a wake step writes the line feed at most 3 times, and
\* after 3 replies that were not the wake acknowledgement it has raised
C3_WakeAtMostThreeWrites ==
  /\ lfWrites <= 3
  /\ (garbage + wake_i >= 3 /\ ~awake =>
        pc = "idle" /\ outcome = "NoDeviceException")

BeforePages ==
  {"wake_write", "wake_read", "cmd_write", "cmd_read", "dmp_tbuf_write",
   "dmp_ack_read", "dmp_hdr_read", "dmp_hdr_esc", "dmp_hdr_ack"}

\* C5: an attempt ended by a page CRC failure has sent the escape byte and
\* returns None with the watermark untouched, and the next attempt starts
\* from an empty list, so no record of the pages already read reaches the
\* caller or the watermark
C5_CrcFailureDiscardsAttempt ==
  /\ cause = "page_crc" =>
       /\ pc = "dmp_return" /\ res = None
       /\ escWrites = 1
       /\ archive_time = time0
  /\ call = "archive" /\ pc \in BeforePages => recs = <<>>
  /\ outcome = "NoNewRecordsException" => new_rec = None

\* the second page failed its CRC after a record of the first was stored
C5_Witness ==
  /\ cause = "page_crc"
  /\ pageReads = 2
  /\ Len(recs) >= 1

\* C6: pollArchive raises NoNewRecordsException exactly when 3 attempts
\* returned None, after exactly 3 attempts, with the watermark of the start
C6_ThreeFailuresRaise ==
  /\ attempts <= 3
  /\ outcome = "NoNewRecordsException" =>
       /\ attempts = 3 /\ noResults = 3
       /\ archive_time = time0
  /\ call = "archive" /\ noResults = 3 =>
       pc = "idle" /\ outcome = "NoNewRecordsException"

\* raised in a later poll, after the watermark had advanced
C6_Witness ==
  /\ pc = "idle" /\ outcome = "NoNewRecordsException"
  /\ archive_time # <<0, 0>>

\* the layout the flag selects
LayoutOf(flag) == IF flag = "True" THEN "B" ELSE "A"

C8_BadAckAborts ==
  cause = "bad_ack" =>
    /\ pc = "dmp_return" /\ res = None
    /\ hdrReads = 0 /\ pageReads = 0
    /\ archive_time = time0

\* the second attempt of a poll ended by a bad acknowledgement
C8_Witness == cause = "bad_ack" /\ arch_i = 1

\* where control is when _cmd has returned to its caller
AfterCmd ==
  IF call = "realtime" THEN pc = "loop_read"
  ELSE IF call = "archive" THEN pc = "dmp_tbuf_write"
  ELSE pc = "idle" /\ outcome = "returned"

\* C9: an issuance transmits the command at most 3 times, stops at the
\* first matching reply, and after 3 replies that do not match returns to
\* its caller exactly as after a match, without raising
C9_CmdBoundedUnconfirmed ==
  /\ cmdWrites <= 3
  /\ cmd_reply = "match" => AfterCmd /\ raiser = "none"
  /\ cmdWrites = 3 /\ cmd_reply = "other" => AfterCmd /\ raiser = "none"
  /\ cmd_reply = "other" /\ cmdWrites < 3 => pc = "cmd_write"

\* DMPAFT went unconfirmed 3 times and the download goes on
C9_Witness ==
  /\ cmdWrites = 3 /\ cmd_reply = "other"
  /\ pc = "dmp_tbuf_write"

\* C10: when a confirmation read times out the issuance has raised
\* NoDeviceException at once: nothing was transmitted after the read
C10_TimeoutRaisesAtOnce ==
  cmd_reply = "timeout" =>
    /\ pc = "idle" /\ outcome = "NoDeviceException" /\ raiser = "_cmd"
    /\ cmdWrites = cmd_i + 1

\* the read of the second transmission of DMPAFT timed out
C10_Witness ==
  /\ cmd_reply = "timeout"
  /\ cmd = "DMPAFT" /\ cmd_i = 1

\* C11: no command text is written before the wake acknowledgement has been
\* received in the same issuance: while _cmd is writing or confirming a
\* command (LOOP 1 or DMPAFT of any attempt, CLRLOG, SETPER), the wake step
\* of that very _cmd call has written a line feed and read b'\n\r'
C11_WakeBeforeCommand ==
  (pc \in {"cmd_write", "cmd_read"} \/ cmdWrites > 0) =>
     awake /\ lfWrites >= 1
\* the DMPAFT of a retried download attempt is written after its own wake
C11_Witness ==
  /\ pc = "cmd_read" /\ cmd = "DMPAFT" /\ arch_i = 1 /\ cmdWrites = 1
  /\ awake /\ lfWrites >= 1

\* C12: pollRealtime issues LOOP 1 at most 3 times. It returns the decode of
\* the first frame whose CRC verifies (every frame before it failed, and no
\* command follows it), and it raises NoDeviceException from
\* _get_loop_fields exactly when 3 frames in a row failed to verify; the
\* only other raises are those of the wake and command steps
C12_RealtimeBounded ==
  call = "realtime" =>
    /\ loopCmds <= LoopRetries
    /\ loop_i <= LoopRetries
    /\ pc # "idle" => loopCmds = loop_i + 1
    /\ (pc = "idle" /\ outcome = "returned") =>
          crc_ok /\ loop_i < LoopRetries /\ loopCmds = loop_i + 1
    /\ (pc = "idle" /\ raiser = "_get_loop_fields") =>
          /\ outcome = "NoDeviceException" /\ ~crc_ok
          /\ loop_i = LoopRetries /\ loopCmds = LoopRetries
    /\ (pc = "idle" /\ loop_i = LoopRetries) => raiser = "_get_loop_fields"
    /\ (pc = "idle" /\ outcome # "returned") =>
          /\ outcome = "NoDeviceException"
          /\ raiser \in {"_wakeup", "_cmd", "_get_loop_fields"}

\* C13: pollArchive runs the download at most 3 times and stops at the first
\* attempt that returns a list. An empty list is a result: the poll returns
\* at once, with no further attempt and no NoNewRecordsException, its value
\* is None and the watermark is unchanged
C13_EmptyListIsResult ==
  /\ [](call = "archive" =>
          /\ attempts <= ArchRetries
          /\ (pc = "idle" /\ outcome = "returned") =>
                ~records.isNone /\ noResults = attempts - 1)
  /\ [][(pc = "dmp_return" /\ ~res.isNone) =>
          /\ pc' = "idle" /\ outcome' = "returned" /\ raiser' = "none"
          /\ attempts' = attempts /\ records' = res
          /\ res.list = <<>> =>
                new_rec' = None /\ archive_time' = archive_time]_vars
\* a second attempt returned the empty list to a session whose watermark an
\* earlier poll had set
C13_Witness ==
  /\ call = "archive" /\ pc = "idle" /\ outcome = "returned"
  /\ records = Some(<<>>) /\ attempts = 2 /\ noResults = 1
  /\ new_rec = None /\ archive_time = time0 /\ archive_time # <<0, 0>>

\* C16: the LOOP frame is read, and the time stamp buffer is written, only
\* if the reply to the command last written by that _cmd call was the
\* acknowledgement byte
C16_FrameOnlyAfterAck ==
  pc \in {"loop_read", "dmp_tbuf_write"} => cmd_reply = "match"

\* C17: in a download attempt one ACK is written for each header or page
\* frame whose CRC verifies, after the verification and before the next
\* frame is read, and none for a frame that does not verify; ESC is written
\* only after such a frame, at most once in the attempt, and the attempt
\* then returns without another read or write
C17_AckEscDiscipline ==
  call = "archive" =>
    LET frames == hdrReads + pageReads
        pending == pc \in {"dmp_hdr_ack", "dmp_hdr_esc",
                           "dmp_page_ack", "dmp_page_esc"}
    IN  /\ escWrites <= 1
        /\ escWrites = 1 =>
              pc = "dmp_return" /\ cause \in {"hdr_crc", "page_crc"}
        /\ pending => ackWrites = frames - 1 /\ escWrites = 0
        /\ ~pending => ackWrites + escWrites = frames
        /\ pc = "dmp_page_read" => ackWrites = frames
        /\ (pc = "dmp_return" /\ cause \in {"hdr_crc", "page_crc"}) =>
              escWrites = 1
\* the second page of a download fails its CRC: two ACKs (header and first
\* page), then one ESC
C17_Witness ==
  /\ call = "archive" /\ pc = "dmp_return" /\ cause = "page_crc"
  /\ hdrReads = 1 /\ pageReads = 2 /\ ackWrites = 2 /\ escWrites = 1

\* the positions of _dmpaft_cmd after `await self._cmd('DMPAFT')`
DmpSteps == {"dmp_tbuf_write", "dmp_ack_read", "dmp_hdr_read", "dmp_hdr_ack",
             "dmp_hdr_esc", "dmp_page_read", "dmp_page_ack", "dmp_page_esc",
             "dmp_walk"}
\* the slots of the page at hand that lie before `offset`
SlotsBefore ==
  IF offset \div ArchiveSize < SlotsPerPage
  THEN offset \div ArchiveSize ELSE SlotsPerPage
\* what an attempt has done so far: its reads and writes, then the slots
\* of the page at hand it has passed
DmpRank ==
  (tbufWrites + ackReads + hdrReads + pageReads + ackWrites + escWrites)
     * (SlotsPerPage + 1) + SlotsBefore

\* C18: after the DMPAFT command step an attempt writes the time stamp
\* buffer once, reads one acknowledgement byte and one header frame, then
\* the page frames one at a time in index order, never more than the header
\* announces. Every step takes it forward (DmpRank grows and is bounded), so
\* it ends, either done after exactly dmp['Pages'] verified pages (with a
\* list, empty and without a page read if Pages = 0) or aborted with None
C18_DownloadSequence ==
  /\ [](call = "archive" =>
          /\ tbufWrites <= 1 /\ ackReads <= tbufWrites /\ hdrReads <= ackReads
          /\ pageReads <= dmp.Pages
          /\ pageReads > 0 => hdrReads = 1 /\ ackWrites >= 1
          /\ pc \in DmpSteps \ {"dmp_tbuf_write"} => tbufWrites = 1
          /\ pc \in DmpSteps \ {"dmp_tbuf_write", "dmp_ack_read"} =>
                ackReads = 1
          /\ pc \in DmpSteps \ {"dmp_tbuf_write", "dmp_ack_read",
                                "dmp_hdr_read"} => hdrReads = 1
          /\ pc = "dmp_page_read" => pageReads = page_i
          /\ pc \in {"dmp_page_ack", "dmp_page_esc", "dmp_walk"} =>
                pageReads = page_i + 1
          /\ pc \in DmpSteps => DmpRank <= (2 * dmp.Pages + 5) * (SlotsPerPage + 1)
          /\ pc = "dmp_return" =>
                /\ tbufWrites = 1
                /\ cause \in {"done", "bad_ack", "hdr_crc", "page_crc"}
                /\ cause = "done" =>
                      /\ ~res.isNone /\ hdrReads = 1 /\ pageReads = dmp.Pages
                      /\ ackWrites = dmp.Pages + 1 /\ escWrites = 0
                      /\ dmp.Pages = 0 => res.list = <<>>
                /\ cause # "done" => res.isNone)
  /\ [][(call = "archive" /\ pc \in DmpSteps) =>
          /\ pc' \in DmpSteps \cup {"dmp_return"}
          /\ DmpRank' > DmpRank]_vars

\* max(0, 5 - offset): the slots of page 0 from position off on
SlotsLeft(off) == IF off < SlotsPerPage THEN SlotsPerPage - off ELSE 0
\* the (DateStamp, TimeStamp) pairs of a record list, in list order
PairSeq(rs) == [k \in 1..Len(rs) |-> <<rs[k].DateStamp, rs[k].TimeStamp>>]
\* the slots (page + 1, position + 1) of pages p..n-1 in page order then
\* blob order, page 0 from position off on
RECURSIVE SlotsFrom(_, _, _)
SlotsFrom(p, n, off) ==
  IF p >= n THEN <<>>
  ELSE LET first == IF p = 0 THEN off ELSE 0
       IN  [j \in 1..SlotsLeft(first) |-> <<p + 1, first + j>>]
              \o SlotsFrom(p + 1, n, off)

\* C19: a completed download from a device with no unused slot holds the
\* records of slots offset..4 of page 0 followed by the 5 records of every
\* later page, in page order then blob order: the header's offset applies
\* to page 0 only, and no slot beyond the fifth of a page is decoded
C19_PageWalkOrder ==
  (device = "dense" /\ call = "archive") =>
    /\ pc = "dmp_walk" =>
          offset % ArchiveSize = 0 /\ offset \div ArchiveSize < SlotsPerPage
    /\ (pc = "dmp_return" /\ cause = "done") =>
          /\ ~res.isNone
          /\ PairSeq(res.list) = SlotsFrom(0, dmp.Pages, dmp.Offset)
          /\ dmp.Pages >= 1 =>
                Len(res.list) = SlotsLeft(dmp.Offset)
                                   + SlotsPerPage * (dmp.Pages - 1)
\* two pages, the first record in slot 3 of page 0: 2 + 5 records
C19_Witness ==
  /\ device = "dense" /\ call = "archive"
  /\ pc = "dmp_return" /\ cause = "done"
  /\ dmp = [Pages |-> 2, Offset |-> 3] /\ Len(res.list) = 7
  /\ PairSeq(res.list) = <<<<1, 4>>, <<1, 5>>, <<2, 1>>, <<2, 2>>, <<2, 3>>,
                           <<2, 4>>, <<2, 5>>>>

\* C20: a frame shorter than its layout is handled like a frame whose CRC
\* does not verify (it is not acknowledged as a good frame) and no decode
\* error leaves the poll, whatever the CRC of the short frame
C20_ShortFrameIsCrcFailure ==
  raw_short =>
    /\ pc \notin {"dmp_hdr_ack", "dmp_page_ack"}
    /\ outcome # "DecodeError"

\* C14: a non-empty byte sequence followed by its CRC, high byte first,
\* verifies (so does the time stamp buffer _dmpaft_cmd sends); the empty
\* sequence does not verify; verify(b) is true exactly when b is not empty
\* and its CRC is 0
C14_CrcFrameVerifies ==
  /\ framed => verify(data)
  /\ verify(data) = (Len(data) > 0 /\ get(data) = 0)
  /\ data = <<>> => ~verify(data)
\* the time stamp buffer of 2023-06-15 14:30 with its CRC appended
C14_Witness ==
  /\ framed /\ Len(data) = 6
  /\ SubSeq(data, 1, 4) = PackTime(<<11983, 1430>>)
  /\ get(SubSeq(data, 1, 4)) # 0
  /\ verify(data)

\* C15: for a year in 2000..2127, a month in 1..12, a day in 1..31, an hour
\* in 0..23 and a minute in 0..59, unpacking the date stamp and the time
\* stamp gives the datetime back, and both stamps fit a 16-bit word; day 15,
\* month 6, year offset 23 decode to 2023-06-15
C15_StampRoundTrip ==
  /\ stamps # <<0, 0>> =>
        stamps[1] \in 0..65535 /\ stamps[2] \in 0..65535
  /\ decoded # NoDate => decoded = date
  /\ LET d == unpack_date_time(15 + 6 * 32 + 23 * 512, 0)
     IN  d.year = 2023 /\ d.month = 6 /\ d.day = 15
\* the last minute of the range
C15_Witness ==
  /\ date = [year |-> 2127, month |-> 12, day |-> 31, hour |-> 23,
             minute |-> 59]
  /\ stamps = <<65439, 2359>>
  /\ decoded = date

\* C21: when a session transmits a LOOP or DMPAFT command, its construction
\* has already transmitted CLRLOG and then SETPER (clear=True), or SETPER
\* alone (clear=False)
C21_CreationConfigures ==
  (cmdWrites > 0 /\ cmd \in {"LOOP 1", "DMPAFT"}) =>
     init_cmds = IF clear THEN <<"CLRLOG", "SETPER">> ELSE <<"SETPER">>

\* C22: the step that sets the revision flag has probed a used slot, never
\* one whose date stamp and time stamp are both 0xFFFF
C22_FlagFromUsedSlot ==
  [][(ARCHIVE_REV_B = "None" /\ ARCHIVE_REV_B' # "None") =>
        ~(a'.DateStamp = Sentinel /\ a'.TimeStamp = Sentinel)]_vars

\* C23: a download attempt that ends with no result (bad acknowledgement of
\* the time stamp, header CRC, page CRC) leaves the revision flag as it was
\* when the attempt was called
C23_NoResultKeepsFlag ==
  (pc = "dmp_return" /\ res.isNone) => ARCHIVE_REV_B = flag0

\* C23, amended: such an attempt leaves the flag as it was if it ended on
\* the acknowledgement, on the header or on the first page, or if the flag
\* was set already; an attempt that ends on the CRC of a later page may have
\* set an unset flag while it walked the pages before
C23_NoResultFlagSetOnlyByWalk ==
  (pc = "dmp_return" /\ res.isNone) =>
    /\ cause \in {"bad_ack", "hdr_crc"} => ARCHIVE_REV_B = flag0
    /\ (cause = "page_crc" /\ pageReads = 1) => ARCHIVE_REV_B = flag0
    /\ flag0 # "None" => ARCHIVE_REV_B = flag0
    /\ ARCHIVE_REV_B # flag0 =>
          /\ flag0 = "None" /\ ARCHIVE_REV_B \in {"True", "False"}
          /\ cause = "page_crc" /\ pageReads >= 2
\* the first attempt of a session walks page 0, which sets the flag, and
\* ends on the CRC of page 1
C23_Witness ==
  /\ pc = "dmp_return" /\ res.isNone /\ cause = "page_crc"
  /\ pageReads = 2 /\ flag0 = "None" /\ ARCHIVE_REV_B = "True"

\* C24: with two pollArchive calls interleaved at their awaits, no step
\* lowers the watermark: a step that writes it leaves a strictly greater
\* (date stamp, time stamp) pair, also when the download that step ends was
\* called with an older watermark than the one it finds
C24_InterleavedMonotone ==
  [][archive_time' = archive_time \/ LexLess(archive_time, archive_time')]_vars
\* task 1 called its download at watermark (0, 0), task 2 moved the
\* watermark to (2, 2) meanwhile, then task 1's download returned a list and
\* was scanned
C24_Witness ==
  /\ tasks[1].at = "returned" /\ tasks[1].time_fields = <<0, 0>>
  /\ tasks[1].seen = <<2, 2>>
  /\ tasks[2].at = "returned" /\ tasks[2].time_fields = <<0, 0>>
  /\ archive_time = <<2, 2>>

\* d1 is earlier than d2, to the minute
Earlier(d1, d2) ==
  \/ d1.year < d2.year
  \/ d1.year = d2.year /\ d1.month < d2.month
  \/ d1.year = d2.year /\ d1.month = d2.month /\ d1.day < d2.day
  \/ /\ d1.year = d2.year /\ d1.month = d2.month /\ d1.day = d2.day
     /\ d1.hour < d2.hour
  \/ /\ d1.year = d2.year /\ d1.month = d2.month /\ d1.day = d2.day
     /\ d1.hour = d2.hour /\ d1.minute < d2.minute

\* C25: of two datetimes of the years 2000..2127 one is earlier than the
\* other, to the minute, exactly when its (DateStamp, TimeStamp) pair is
\* less than the other's in the tuple comparison the watermark test uses
C25_StampOrderIsTimeOrder ==
  stamps # <<0, 0>> =>
    /\ Earlier(date, date2) <=> TupleLess(stamps, stamps2)
    /\ Earlier(date2, date) <=> TupleLess(stamps2, stamps)
    /\ date = date2 <=> stamps = stamps2
\* the last minute of 2000 and the first of 2001: the date stamp decides
\* against the time stamp
C25_Witness ==
  /\ date = [year |-> 2000, month |-> 12, day |-> 31, hour |-> 23,
             minute |-> 59]
  /\ date2 = [year |-> 2001, month |-> 1, day |-> 1, hour |-> 0,
              minute |-> 0]
  /\ stamps = <<415, 2359>> /\ stamps2 = <<545, 0>>
  /\ TupleLess(stamps, stamps2)

====
